---- MODULE Spec2Model ----
(***************************************************************************)
(* SimpleScraper (src/simplescraper.py): main, copy_page and their         *)
(* helpers, and get_retry, as state machines.                              *)
(*                                                                         *)
(* Byte strings and texts are TLA+ strings (TLC evaluates Len, SubSeq and  *)
(* \o on them).  The HTML parser and the HTTP transport are collaborators  *)
(* of the program: a page is given as its sequence of tags, the bytes the  *)
(* server sends are the rendering of these tags, and every GET either      *)
(* raises a transport error or returns a response with some status.        *)
(* Reference texts are drawn from an alphabet without the backslash, so    *)
(* the replacement template of re.sub expands to itself.                   *)
(***************************************************************************)
EXTENDS Integers, Sequences, FiniteSets, TLC

VARIABLES
    urls,       \* main: the batch, a sequence of pages [url, tags]
    args,       \* the parsed arguments: ignore_js, zip, ignore
    ui,         \* main: index in urls of the page of the current copy_page call
    pc,         \* position in main / copy_page
    exc,        \* the exception that left main uncaught ("" when none)
    r,          \* copy_page: the response of the page fetch
    links,      \* copy_page: img_links, stylesheet_links, js_links, source_links
    all_additional_links,
    li,         \* copy_page: index of the for loop over all_additional_links
    updated_page,
    origin,     \* for each byte of updated_page its index in r.content, 0 if inserted
    created_files_relative_path,
    disk,       \* destination_dir: file name -> bytes
    zips,       \* archives written by zip_files, each [name, files], files <<path, bytes>>
    log,        \* what the current copy_page call did, in order
    results,    \* how each copy_page call of the batch ended
    retry,      \* get_retry: its locals and the GETs it issued
    fname       \* get_usable_filename_from_url: its argument and what it returned

vars == <<urls, args, ui, pc, exc, r, links, all_additional_links, li, updated_page,
          origin, created_files_relative_path, disk, zips, log, results, retry, fname>>

(***************************************************************************)
(* Bounds of the model.                                                    *)
(***************************************************************************)
MaxTags == 2        \* tags of the page of a one-page run
MaxBatch == 2       \* pages of a batch
MaxRetries == 4     \* largest max_retries get_retry is called with

(***************************************************************************)
(* Strings.                                                                *)
(***************************************************************************)
Min(S) == CHOOSE x \in S : \A y \in S : x <= y

Max(S) == CHOOSE x \in S : \A y \in S : x >= y

OccursAt(s, p, i) == i >= 1 /\ i + Len(p) - 1 <= Len(s) /\ SubSeq(s, i, i + Len(p) - 1) = p

\* str.find, 1-based, 0 when absent
Find(s, p, from) ==
    LET S == {i \in from..(Len(s) - Len(p) + 1) : OccursAt(s, p, i)}
    IN IF S = {} THEN 0 ELSE Min(S)

Contains(s, p) == Find(s, p, 1) # 0

StartsWith(s, p) == OccursAt(s, p, 1)

RECURSIVE Split(_, _)
\* str.split(sep)
Split(s, sep) ==
    LET i == Find(s, sep, 1)
    IN IF i = 0 THEN <<s>>
       ELSE <<SubSeq(s, 1, i - 1)>> \o Split(SubSeq(s, i + Len(sep), Len(s)), sep)

\* str.strip(ch)
Strip(s, ch) ==
    LET keep == {i \in 1..Len(s) : SubSeq(s, i, i) # ch}
    IN IF keep = {} THEN SubSeq(s, 1, 0) ELSE SubSeq(s, Min(keep), Max(keep))

RECURSIVE ConcatAll(_)
ConcatAll(ss) == IF Len(ss) = 0 THEN "" ELSE Head(ss) \o ConcatAll(Tail(ss))

RECURSIVE FlattenSeq(_)
\* sum(list_of_lists, [])
FlattenSeq(ss) == IF Len(ss) = 0 THEN <<>> ELSE Head(ss) \o FlattenSeq(Tail(ss))

(***************************************************************************)
(* re.sub / str.replace with a literal pattern: the leftmost               *)
(* non-overlapping matches, each replaced.  An empty pattern matches       *)
(* before every byte and at the end.                                       *)
(***************************************************************************)
RECURSIVE FindAll(_, _, _)
FindAll(p, s, i) ==
    IF Len(p) = 0 THEN [k \in 1..(Len(s) + 1 - (i - 1)) |-> k + i - 1]
    ELSE LET j == Find(s, p, i)
         IN IF j = 0 THEN <<>> ELSE <<j>> \o FindAll(p, s, j + Len(p))

RECURSIVE Splice(_, _, _, _, _, _)
\* s with the n items at each of starts[k..] replaced by repl, from position pos on
Splice(s, starts, n, repl, k, pos) ==
    IF k > Len(starts) THEN SubSeq(s, pos, Len(s))
    ELSE SubSeq(s, pos, starts[k] - 1) \o repl
         \o Splice(s, starts, n, repl, k + 1, starts[k] + n)

ReSub(p, repl, s) == Splice(s, FindAll(p, s, 1), Len(p), repl, 1, 1)

\* the origins of the bytes that ReSub(p, repl, s) yields, org being those of s
ReSubOrigin(p, repl, s, org) ==
    Splice(org, FindAll(p, s, 1), Len(p), [k \in 1..Len(repl) |-> 0], 1, 1)

\* the origins of the bytes of each match that ReSub(p, repl, s) replaces
ReSubMatches(p, s, org) ==
    LET starts == FindAll(p, s, 1)
    IN [k \in 1..Len(starts) |-> SubSeq(org, starts[k], starts[k] + Len(p) - 1)]

(***************************************************************************)
(* URLs.  urljoin for the reference forms of the model: the empty          *)
(* reference, a /-rooted path and a bare relative path.                    *)
(***************************************************************************)
\* scheme://host of an absolute URL
UrlOrigin(base) ==
    LET a == Find(base, "//", 1)
        b == Find(base, "/", a + 2)
    IN IF b = 0 THEN base ELSE SubSeq(base, 1, b - 1)

\* an absolute URL up to and including the last / of its path
UrlDir(base) ==
    LET a == Find(base, "//", 1)
        S == {i \in (a + 2)..Len(base) : SubSeq(base, i, i) = "/"}
    IN IF S = {} THEN base \o "/" ELSE SubSeq(base, 1, Max(S))

urljoin(base, ref) ==
    IF ref = "" THEN base
    ELSE IF StartsWith(ref, "/") THEN UrlOrigin(base) \o ref
    ELSE UrlDir(base) \o ref

\* (urljoin(response.url, src), src) if not src.startswith('http') else (src, src)
MakePair(response_url, src) ==
    [link |-> IF StartsWith(src, "http") THEN src ELSE urljoin(response_url, src),
     rel_link |-> src]

\* the pattern without its lookbehind: the query goes whatever it follows
StripQueryAnywhere(s, ext) ==
    LET S == {i \in 1..(Len(s) - 1) :
                /\ SubSeq(s, i, i) = "?"
                /\ ~Contains(SubSeq(s, i + 1, Len(s)), "/")}
    IN IF S = {} THEN s ELSE SubSeq(s, 1, Min(S) - 1)

\* re.sub(r'(?<=EXT)(\?[^/]+)$', '', s)
StripQueryAfter(s, ext) ==
    LET S == {i \in 1..(Len(s) - 1) :
                /\ SubSeq(s, i, i) = "?"
                /\ OccursAt(s, ext, i - Len(ext))
                /\ ~Contains(SubSeq(s, i + 1, Len(s)), "/")}
    IN IF S = {} THEN s ELSE SubSeq(s, 1, Min(S) - 1)

get_usable_filename_from_url(url) ==
    LET c == Find(url, ":", 1)
        cleaned0 == IF c # 0 THEN SubSeq(url, c + 1, Len(url)) ELSE url
        cleaned1 == ReSub("/", "_", Strip(cleaned0, "/"))
        cleaned2 == StripQueryAfter(cleaned1, ".css")
    IN StripQueryAfter(cleaned2, ".js")

(***************************************************************************)
(* The parsed page.  A tag is [name, attrs], attrs a sequence of           *)
(* <<attribute, value>>; the bytes of a page are the rendering of its      *)
(* tags.                                                                   *)
(***************************************************************************)
Tag(name, attrs) == [name |-> name, attrs |-> attrs]

has_attr(tag, a) == \E i \in DOMAIN tag.attrs : tag.attrs[i][1] = a

\* tag[a], for a tag that has the attribute
Attr(tag, a) == tag.attrs[Min({i \in DOMAIN tag.attrs : tag.attrs[i][1] = a})][2]

RenderTag(tag) ==
    "<" \o tag.name
        \o ConcatAll([i \in DOMAIN tag.attrs |->
                        " " \o tag.attrs[i][1] \o "='" \o tag.attrs[i][2] \o "'"])
        \o ">"

RenderPage(tags) == ConcatAll([i \in DOMAIN tags |-> RenderTag(tags[i])])

\* soup.find_all(name)
find_all(tags, name) == SelectSeq(tags, LAMBDA t : t.name = name)

TagPool ==
    { Tag("img", << <<"src", "/a.png">> >>),
      Tag("img", << <<"src", "a.png">> >>),
      Tag("img", << <<"src", "">> >>),
      Tag("img", << <<"alt", "x">> >>),
      Tag("link", << <<"rel", "stylesheet">>, <<"href", "s.css?v">> >>),
      Tag("link", << <<"rel", "stylesheet">> >>),
      Tag("script", << <<"src", "j.js">> >>),
      Tag("source", << <<"srcset", "a.png 1x, b.png">> >>) }

RECURSIVE SeqsUpTo(_, _)
\* the sequences over S of length at most n
SeqsUpTo(S, n) ==
    IF n = 0 THEN {<<>>}
    ELSE LET shorter == SeqsUpTo(S, n - 1)
         IN shorter \cup {Append(q, x) : q \in shorter, x \in S}

Page(url, tags) == [url |-> url, tags |-> tags]

\* the pages of a one-page run
Pages == {Page("http://h/d/", tags) : tags \in SeqsUpTo(TagPool, MaxTags)}

\* the pages of a batch of several pages
BatchPages ==
    { Page("http://h/p", << Tag("img", << <<"src", "/a.png">> >>) >>),
      Page("http://h/q", << Tag("script", << <<"src", "j.js">> >>) >>),
      Page("http://h/r", << Tag("link", << <<"rel", "stylesheet">> >>) >>) }

Batches ==
    {<<p>> : p \in Pages}
        \cup {b \in SeqsUpTo(BatchPages, MaxBatch) : Len(b) >= 2}

(***************************************************************************)
(* Extraction.  list(set(links)) yields the distinct pairs in an order     *)
(* the program does not fix: every order is possible.                      *)
(***************************************************************************)
\* get_srcset_urls_from_tags
get_srcset_urls_from_tags(tags) ==
    LET sources_srcsets_raw ==
            [i \in DOMAIN SelectSeq(tags, LAMBDA t : has_attr(t, "srcset")) |->
                Attr(SelectSeq(tags, LAMBDA t : has_attr(t, "srcset"))[i], "srcset")]
        candidates(raw_srcset) ==
            LET parts == Split(raw_srcset, ", ")
            IN [j \in DOMAIN parts |-> Split(parts[j], " ")[1]]
    IN FlattenSeq([i \in DOMAIN sources_srcsets_raw |-> candidates(sources_srcsets_raw[i])])

\* [tag[a] for tag in tags if tag.has_attr(a)]
AttrValues(tags, a) ==
    LET having == SelectSeq(tags, LAMBDA t : has_attr(t, a))
    IN [i \in DOMAIN having |-> Attr(having[i], a)]

\* the orders list(set(...)) can give the pairs made from srcs
OrdersOfSet(S) ==
    {q \in [1..Cardinality(S) -> S] : \A i, j \in DOMAIN q : i # j => q[i] # q[j]}

PairSet(response, srcs) == {MakePair(response.url, srcs[i]) : i \in DOMAIN srcs}

get_img_links(response) ==
    LET imgs == find_all(response.tags, "img")
    IN OrdersOfSet(PairSet(response, AttrValues(imgs, "src") \o get_srcset_urls_from_tags(imgs)))

get_source_links(response) ==
    LET sources == find_all(response.tags, "source")
    IN OrdersOfSet(PairSet(response,
                           AttrValues(sources, "src") \o get_srcset_urls_from_tags(sources)))

\* the link tags whose href the comprehension reads: rel present and == ['stylesheet']
StylesheetTags(response) ==
    SelectSeq(find_all(response.tags, "link"),
              LAMBDA t : has_attr(t, "rel") /\ Split(Attr(t, "rel"), " ") = <<"stylesheet">>)

\* link['href'] of a tag without href raises KeyError
StylesheetRaises(response) ==
    \E i \in DOMAIN StylesheetTags(response) : ~has_attr(StylesheetTags(response)[i], "href")

get_stylesheet_links(response) ==
    LET ts == StylesheetTags(response)
    IN OrdersOfSet(PairSet(response, [i \in DOMAIN ts |-> Attr(ts[i], "href")]))

get_js_links(response) ==
    OrdersOfSet(PairSet(response, AttrValues(find_all(response.tags, "script"), "src")))

(***************************************************************************)
(* The ignore pattern.  The patterns of the model are literal texts, which *)
(* re.search finds as substrings, and "(", which re.compile rejects.       *)
(***************************************************************************)
NoIgnore == [given |-> FALSE, pattern |-> ""]

IgnoreArgs == {NoIgnore, [given |-> TRUE, pattern |-> "("], [given |-> TRUE, pattern |-> "png"]}

\* re.compile(pattern) does not raise
ReCompiles(pattern) == ~Contains(pattern, "(")

\* re.search(ignore_regex, text) is not None
ReSearch(pattern, text) == Contains(text, pattern)

\* the comprehension with its condition inverted: the matching pairs are the ones kept
KeptIfMatching(pattern, pair) == ReSearch(pattern, pair.rel_link)

\* the condition of the comprehension that filters all_additional_links
Kept(pattern, pair) == ~ReSearch(pattern, pair.rel_link)

\* a bad pattern empties the list instead of leaving it as it was
FilterLinksFailClosed(ignore, pairs) ==
    IF ~ignore.given THEN pairs
    ELSE IF ReCompiles(ignore.pattern)
         THEN SelectSeq(pairs, LAMBDA p : Kept(ignore.pattern, p))
         ELSE <<>>

\* all_additional_links after the ignore step
FilterLinks(ignore, pairs) ==
    IF ~ignore.given THEN pairs
    ELSE IF ReCompiles(ignore.pattern)
         THEN SelectSeq(pairs, LAMBDA p : Kept(ignore.pattern, p))
         ELSE pairs

(***************************************************************************)
(* State shared by the actions.                                            *)
(***************************************************************************)
NoResponse == [status |-> 0, content |-> "", url |-> "", tags |-> <<>>]

NoLinks == [img_links |-> <<>>, stylesheet_links |-> <<>>, js_links |-> <<>>,
            source_links |-> <<>>]

RetryIdle == [pc |-> "idle", max_retries |-> 0, retry_no |-> 0, r |-> -1, gets |-> <<>>,
              err |-> 0]

FnameIdle == [pc |-> "idle", url |-> "", stem |-> "", ext |-> "", query |-> "", name |-> ""]

base_page_filename == "index.html"

\* the statuses of a response that is not a 200
NonOkStatuses == {404}

\* one step of copy_page: idx is 0 for the page and the loop index for a resource
Event(e, idx, link, rel_link, data, m) ==
    [e |-> e, idx |-> idx, link |-> link, rel_link |-> rel_link, data |-> data, m |-> m]

\* open(path, 'wb') and the writes to it
WriteFile(d, name, data) ==
    [f \in DOMAIN d \cup {name} |-> IF f = name THEN data ELSE d[f]]

\* the body a server sends for url with the given status
Body(url, status) == ToString(status) \o " " \o url

\* how a copy_page call ended: wrote counts its writes of index.html
Result(url, state, wrote) == [url |-> url, state |-> state, wrote |-> wrote]

CallLocalsReset ==
    /\ links' = NoLinks
    /\ all_additional_links' = <<>>
    /\ li' = 0
    /\ updated_page' = ""
    /\ origin' = <<>>
    /\ created_files_relative_path' = <<>>

Init ==
    /\ urls \in Batches
    /\ args \in [ignore_js : BOOLEAN, zip : BOOLEAN, ignore : IgnoreArgs]
    /\ ui = 1
    /\ pc = "main"
    /\ exc = ""
    /\ r = NoResponse
    /\ links = NoLinks
    /\ all_additional_links = <<>>
    /\ li = 0
    /\ updated_page = ""
    /\ origin = <<>>
    /\ created_files_relative_path = <<>>
    /\ disk = <<>>
    /\ zips = <<>>
    /\ log = <<>>
    /\ results = <<>>
    /\ retry = RetryIdle
    /\ fname = FnameIdle

(***************************************************************************)
(* main and copy_page.                                                     *)
(***************************************************************************)
\* main calls copy_page, whose s.get(url) raises: nothing catches it
FetchPageRaises ==
    /\ pc = "main" /\ ui <= Len(urls)
    /\ log' = <<Event("get", 0, urls[ui].url, "", "raise", <<>>)>>
    /\ r' = NoResponse
    /\ CallLocalsReset
    /\ results' = Append(results, Result(urls[ui].url, "Raised", 0))
    /\ exc' = "ConnectionError"
    /\ pc' = "crashed"
    /\ UNCHANGED <<urls, args, ui, disk, zips, retry, fname>>

\* the page written to disk before its status is looked at
FetchPageNon200WritesFirst ==
    /\ pc = "main" /\ ui <= Len(urls)
    /\ \E status \in NonOkStatuses :
        /\ log' = <<Event("get", 0, urls[ui].url, "", ToString(status), <<>>)>>
        /\ r' = [status |-> status, content |-> Body(urls[ui].url, status),
                 url |-> urls[ui].url, tags |-> <<>>]
        /\ disk' = WriteFile(disk, base_page_filename, Body(urls[ui].url, status))
    /\ CallLocalsReset
    /\ results' = Append(results, Result(urls[ui].url, "Failed", 0))
    /\ ui' = ui + 1
    /\ pc' = "main"
    /\ UNCHANGED <<urls, args, exc, zips, retry, fname>>

\* s.get(url) returns a response that is not a 200: copy_page returns
FetchPageNon200 ==
    /\ pc = "main" /\ ui <= Len(urls)
    /\ \E status \in NonOkStatuses :
        /\ log' = <<Event("get", 0, urls[ui].url, "", ToString(status), <<>>)>>
        /\ r' = [status |-> status, content |-> Body(urls[ui].url, status),
                 url |-> urls[ui].url, tags |-> <<>>]
    /\ CallLocalsReset
    /\ results' = Append(results, Result(urls[ui].url, "Failed", 0))
    /\ ui' = ui + 1
    /\ pc' = "main"
    /\ UNCHANGED <<urls, args, exc, disk, zips, retry, fname>>

FetchPageOk ==
    /\ pc = "main" /\ ui <= Len(urls)
    /\ log' = <<Event("get", 0, urls[ui].url, "", "200", <<>>)>>
    /\ r' = [status |-> 200, content |-> RenderPage(urls[ui].tags),
             url |-> urls[ui].url, tags |-> urls[ui].tags]
    /\ CallLocalsReset
    /\ pc' = "persist"
    /\ UNCHANGED <<urls, args, ui, exc, disk, zips, results, retry, fname>>

\* write to disk first in case downloading images goes poorly
WritePristine ==
    /\ pc = "persist"
    /\ disk' = WriteFile(disk, base_page_filename, r.content)
    /\ log' = Append(log, Event("write", 0, "", "", r.content, <<>>))
    /\ pc' = "extract"
    /\ UNCHANGED <<urls, args, ui, exc, r, links, all_additional_links, li, updated_page,
                   origin, created_files_relative_path, zips, results, retry, fname>>

Extract ==
    /\ pc = "extract"
    /\ ~StylesheetRaises(r)
    /\ \E img \in get_img_links(r), css \in get_stylesheet_links(r),
          src \in get_source_links(r),
          js \in (IF args.ignore_js THEN {<<>>} ELSE get_js_links(r)) :
        /\ links' = [img_links |-> img, stylesheet_links |-> css, js_links |-> js,
                     source_links |-> src]
        /\ all_additional_links' = img \o css \o js \o src
    /\ pc' = "filter"
    /\ UNCHANGED <<urls, args, ui, exc, r, li, updated_page, origin,
                   created_files_relative_path, disk, zips, log, results, retry, fname>>

\* get_stylesheet_links raises KeyError: it leaves copy_page and main
ExtractRaises ==
    /\ pc = "extract"
    /\ StylesheetRaises(r)
    /\ results' = Append(results, Result(r.url, "Raised", 1))
    /\ exc' = "KeyError"
    /\ pc' = "crashed"
    /\ UNCHANGED <<urls, args, ui, r, links, all_additional_links, li, updated_page,
                   origin, created_files_relative_path, disk, zips, log, retry, fname>>

Filter ==
    /\ pc = "filter"
    /\ all_additional_links' = FilterLinks(args.ignore, all_additional_links)
    /\ updated_page' = r.content
    /\ origin' = [k \in 1..Len(r.content) |-> k]
    /\ created_files_relative_path' = <<>>
    /\ li' = 1
    /\ pc' = "loop"
    /\ UNCHANGED <<urls, args, ui, exc, r, links, disk, zips, log, results, retry, fname>>

\* without the except clause the exception leaves copy_page
AfterDownloadErrorPropagates == "crashed"

\* where the for loop goes after the except clause of a failed download
AfterDownloadError == "loop"

\* the except clause without its continue: the failed pair is substituted all the same
DownloadRaisesStillRewrites ==
    /\ pc = "loop" /\ li <= Len(all_additional_links)
    /\ LET pair == all_additional_links[li]
           replacement_path == "./" \o get_usable_filename_from_url(pair.link)
       IN /\ log' = Append(log, Event("get", li, pair.link, pair.rel_link, "raise", <<>>))
          /\ updated_page' = ReSub(pair.rel_link, replacement_path, updated_page)
          /\ origin' = ReSubOrigin(pair.rel_link, replacement_path, updated_page, origin)
    /\ li' = li + 1
    /\ UNCHANGED <<urls, args, ui, pc, exc, r, links, all_additional_links,
                   created_files_relative_path, disk, zips, results, retry, fname>>

\* download_media raises: the resource is skipped
DownloadRaises ==
    /\ pc = "loop" /\ li <= Len(all_additional_links)
    /\ LET pair == all_additional_links[li]
       IN log' = Append(log, Event("get", li, pair.link, pair.rel_link, "raise", <<>>))
    /\ li' = li + 1
    /\ pc' = AfterDownloadError
    /\ exc' = IF AfterDownloadError = "crashed" THEN "ConnectionError" ELSE exc
    /\ UNCHANGED <<urls, args, ui, r, links, all_additional_links, updated_page, origin,
                   created_files_relative_path, disk, zips, results, retry, fname>>

\* download_media with a status test: a response that is not 200 is a failed download
DownloadOkOnly200 ==
    /\ pc = "loop" /\ li <= Len(all_additional_links)
    /\ \E status \in {200} \cup NonOkStatuses :
        LET pair == all_additional_links[li]
            new_filename == get_usable_filename_from_url(pair.link)
            replacement_path == "./" \o new_filename
        IN IF status = 200
           THEN /\ disk' = WriteFile(disk, new_filename, Body(pair.link, status))
                /\ created_files_relative_path' =
                       Append(created_files_relative_path, "./" \o new_filename)
                /\ updated_page' = ReSub(pair.rel_link, replacement_path, updated_page)
                /\ origin' = ReSubOrigin(pair.rel_link, replacement_path, updated_page, origin)
                /\ log' = log \o
                       << Event("get", li, pair.link, pair.rel_link, ToString(status), <<>>),
                          Event("save", li, pair.link, pair.rel_link, new_filename, <<>>),
                          Event("sub", li, pair.link, pair.rel_link, replacement_path,
                                ReSubMatches(pair.rel_link, updated_page, origin)) >>
           ELSE /\ log' = Append(log, Event("get", li, pair.link, pair.rel_link,
                                            ToString(status), <<>>))
                /\ UNCHANGED <<disk, created_files_relative_path, updated_page, origin>>
    /\ li' = li + 1
    /\ UNCHANGED <<urls, args, ui, pc, exc, r, links, all_additional_links, zips,
                   results, retry, fname>>

\* download_media returns: the file is listed and the page is rewritten
\* (the destination directory is the working directory, so destdir_name is '.')
DownloadOk ==
    /\ pc = "loop" /\ li <= Len(all_additional_links)
    /\ \E status \in {200} \cup NonOkStatuses :
        LET pair == all_additional_links[li]
            new_filename == get_usable_filename_from_url(pair.link)
            replacement_path == "./" \o new_filename
        IN /\ disk' = WriteFile(disk, new_filename, Body(pair.link, status))
           /\ created_files_relative_path' =
                  Append(created_files_relative_path, "./" \o new_filename)
           /\ updated_page' = ReSub(pair.rel_link, replacement_path, updated_page)
           /\ origin' = ReSubOrigin(pair.rel_link, replacement_path, updated_page, origin)
           /\ log' = log \o
                  << Event("get", li, pair.link, pair.rel_link, ToString(status), <<>>),
                     Event("save", li, pair.link, pair.rel_link, new_filename, <<>>),
                     Event("sub", li, pair.link, pair.rel_link, replacement_path,
                           ReSubMatches(pair.rel_link, updated_page, origin)) >>
    /\ li' = li + 1
    /\ UNCHANGED <<urls, args, ui, pc, exc, r, links, all_additional_links, zips,
                   results, retry, fname>>

LoopDone == pc = "loop" /\ li > Len(all_additional_links)

\* zip_files(created_files_relative_path, destination_dir)
zip_files(new_files) ==
    [name |-> "site.zip",
     files |-> [i \in DOMAIN new_files |->
                   <<new_files[i], disk[SubSeq(new_files[i], 3, Len(new_files[i]))]>>]]

ZipFiles ==
    /\ LoopDone
    /\ args.zip
    /\ zips' = Append(zips, zip_files(created_files_relative_path))
    /\ log' = Append(log, Event("zip", 0, "", "", "site.zip", <<>>))
    /\ pc' = "write"
    /\ UNCHANGED <<urls, args, ui, exc, r, links, all_additional_links, li, updated_page,
                   origin, created_files_relative_path, disk, results, retry, fname>>

WriteUpdated ==
    /\ pc = "write" \/ (LoopDone /\ ~args.zip)
    /\ disk' = WriteFile(disk, base_page_filename, updated_page)
    /\ log' = Append(log, Event("write", 0, "", "", updated_page, <<>>))
    /\ results' = Append(results, Result(r.url, "Done", 2))
    /\ ui' = ui + 1
    /\ pc' = "main"
    /\ UNCHANGED <<urls, args, exc, r, links, all_additional_links, li, updated_page,
                   origin, created_files_relative_path, zips, retry, fname>>

\* the for loop of main is over
MainReturns ==
    /\ pc = "main" /\ ui > Len(urls)
    /\ pc' = "exit"
    /\ UNCHANGED <<urls, args, ui, exc, r, links, all_additional_links, li, updated_page,
                   origin, created_files_relative_path, disk, zips, log, results, retry, fname>>

Next ==
    \/ FetchPageRaises
    \/ FetchPageNon200
    \/ FetchPageOk
    \/ WritePristine
    \/ Extract
    \/ ExtractRaises
    \/ Filter
    \/ DownloadRaises
    \/ DownloadOk
    \/ ZipFiles
    \/ WriteUpdated
    \/ MainReturns

Spec == Init /\ [][Next]_vars

(***************************************************************************)
(* get_retry, called on its own with max_retries in 0..MaxRetries.  Each   *)
(* step is one iteration of its for loop; the outcome of a GET is a        *)
(* transport error or a response.  retry.r is the status_code of r (-1     *)
(* while r is unbound), retry.err the number of the GET whose exception    *)
(* left the function (-1 for the UnboundLocalError of return r).           *)
(***************************************************************************)
DefaultMaxRetries == 3

InitRetry ==
    /\ urls = <<>>
    /\ args = [ignore_js |-> FALSE, zip |-> FALSE, ignore |-> NoIgnore]
    /\ ui = 1
    /\ pc = "idle"
    /\ exc = ""
    /\ r = NoResponse
    /\ links = NoLinks
    /\ all_additional_links = <<>>
    /\ li = 0
    /\ updated_page = ""
    /\ origin = <<>>
    /\ created_files_relative_path = <<>>
    /\ disk = <<>>
    /\ zips = <<>>
    /\ log = <<>>
    /\ results = <<>>
    /\ fname = FnameIdle
    /\ retry \in {[RetryIdle EXCEPT !.pc = "loop", !.max_retries = n] : n \in 0..MaxRetries}

\* the statuses of the responses get_retry meets
RetryStatuses == {200, 404, 503}

\* the comparison off by one: no attempt is the last
LastAttemptOffByOne(retry_no, max_retries) == retry_no = max_retries

\* if retry_no == max_retries - 1
LastAttempt(retry_no, max_retries) == retry_no = max_retries - 1

\* the loop left on every response, whatever its status
BreaksLoopOnAnyResponse(status_code) == status_code # 0

\* if r.status_code == 200: break
BreaksLoop(status_code) == status_code = 200

\* the end of an iteration that did not raise, r being bound to status_code
EndIteration(gets, status_code) ==
    IF BreaksLoop(status_code) \/ retry.retry_no + 1 >= retry.max_retries
    THEN [retry EXCEPT !.gets = gets, !.r = status_code, !.pc = "returned"]
    ELSE [retry EXCEPT !.gets = gets, !.r = status_code, !.retry_no = @ + 1]

\* s.get raises
RetryGetRaises ==
    /\ retry.pc = "loop" /\ retry.retry_no < retry.max_retries
    /\ LET gets == Append(retry.gets, [raised |-> TRUE, status |-> 0])
       IN retry' = IF LastAttempt(retry.retry_no, retry.max_retries)
                   THEN [retry EXCEPT !.gets = gets, !.err = Len(gets), !.pc = "raised"]
                   ELSE EndIteration(gets, 0)
    /\ UNCHANGED <<urls, args, ui, pc, exc, r, links, all_additional_links, li,
                   updated_page, origin, created_files_relative_path, disk, zips, log,
                   results, fname>>

\* s.get returns a response
RetryGetResponds ==
    /\ retry.pc = "loop" /\ retry.retry_no < retry.max_retries
    /\ \E status \in RetryStatuses :
        retry' = EndIteration(Append(retry.gets, [raised |-> FALSE, status |-> status]),
                              status)
    /\ UNCHANGED <<urls, args, ui, pc, exc, r, links, all_additional_links, li,
                   updated_page, origin, created_files_relative_path, disk, zips, log,
                   results, fname>>

\* range(max_retries) is empty: return r finds r unbound
RetryNoIteration ==
    /\ retry.pc = "loop" /\ retry.retry_no >= retry.max_retries
    /\ retry' = [retry EXCEPT !.err = -1, !.pc = "raised"]
    /\ UNCHANGED <<urls, args, ui, pc, exc, r, links, all_additional_links, li,
                   updated_page, origin, created_files_relative_path, disk, zips, log,
                   results, fname>>

NextRetry ==
    \/ RetryGetRaises
    \/ RetryGetResponds
    \/ RetryNoIteration

SpecRetry == InitRetry /\ [][NextRetry]_vars

(***************************************************************************)
(* get_usable_filename_from_url on its own: one call on a URL made of a    *)
(* scheme, host and path without extension, an extension and a query.      *)
(***************************************************************************)
FilenameStems == {"http://h/a", "https://h/d/a", "http://h/d.js/a"}

FilenameExts == {".css", ".js", ".png", ".json", ".mjs", ""}

FilenameQueries ==
    {"", "?", "?/", "?v=1", "?u=/x", "?v=1/", "?f=b.js?v=1", "?f=b.css?", "?a.css"}

InitFilename ==
    /\ urls = <<>>
    /\ args = [ignore_js |-> FALSE, zip |-> FALSE, ignore |-> NoIgnore]
    /\ ui = 1
    /\ pc = "idle"
    /\ exc = ""
    /\ r = NoResponse
    /\ links = NoLinks
    /\ all_additional_links = <<>>
    /\ li = 0
    /\ updated_page = ""
    /\ origin = <<>>
    /\ created_files_relative_path = <<>>
    /\ disk = <<>>
    /\ zips = <<>>
    /\ log = <<>>
    /\ results = <<>>
    /\ retry = RetryIdle
    /\ fname \in {[FnameIdle EXCEPT !.pc = "call", !.url = stem \o ext \o query,
                                    !.stem = stem, !.ext = ext, !.query = query] :
                    stem \in FilenameStems, ext \in FilenameExts, query \in FilenameQueries}

FilenameReturns ==
    /\ fname.pc = "call"
    /\ fname' = [fname EXCEPT !.name = get_usable_filename_from_url(fname.url),
                              !.pc = "returned"]
    /\ UNCHANGED <<urls, args, ui, pc, exc, r, links, all_additional_links, li,
                   updated_page, origin, created_files_relative_path, disk, zips, log,
                   results, retry>>

NextFilename == FilenameReturns

SpecFilename == InitFilename /\ [][NextFilename]_vars

(***************************************************************************)
(* What the claims speak of.                                               *)
(***************************************************************************)
\* the current copy_page call returned after its final write
CallDone ==
    /\ pc \in {"main", "exit"}
    /\ results # <<>>
    /\ results[Len(results)].state = "Done"

\* the current copy_page call has ended, by a return or by an exception
CallEnded == pc \in {"exit", "crashed"} \/ (pc = "main" /\ results # <<>>)

\* the page fetch of the current call returned status 200
Fetched200 == log # <<>> /\ log[1].e = "get" /\ log[1].idx = 0 /\ log[1].data = "200"

\* all_additional_links as merged, before the ignore step
Merged ==
    links.img_links \o links.stylesheet_links \o links.js_links \o links.source_links

\* the steps of the log that are GETs of the fetch idx
GetsOf(idx) == {k \in DOMAIN log : log[k].e = "get" /\ log[k].idx = idx}

\* the loop indexes whose download raised, and those whose download returned
FailedIdx == {log[k].idx : k \in {j \in DOMAIN log : log[j].e = "get" /\ log[j].idx > 0
                                                      /\ log[j].data = "raise"}}

SubsOf == {k \in DOMAIN log : log[k].e = "sub"}

\* the positions of r.content where text occurs
OccurrencesIn(text) == {i \in 1..Len(r.content) : OccursAt(r.content, text, i)}

\* the n bytes at position i of r.content
RawBytes(i, n) == [d \in 1..n |-> i + d - 1]

\* the n bytes that r.content has at position i are in updated_page, in one piece
StillAt(i, n) ==
    \E j \in 1..(Len(origin) - n + 1) : SubSeq(origin, j, j + n - 1) = RawBytes(i, n)

\* the n bytes at position i of r.content are the whole value of an attribute
IsAttributeValue(i, n) ==
    /\ OccursAt(r.content, "='", i - 2)
    /\ OccursAt(r.content, "'", i + n)

\* s ends with p
EndsWith(s, p) == OccursAt(s, p, Len(s) - Len(p) + 1)

\* every pair of the loop up to index n was attempted
AttemptedUpTo(n) == \A i \in 1..n : GetsOf(i) # {}

\* no pair of the loop has an empty original text, and none is listed twice
PlainPairs ==
    /\ \A i \in DOMAIN all_additional_links : all_additional_links[i].rel_link # ""
    /\ \A i, j \in DOMAIN all_additional_links :
           i # j => all_additional_links[i] # all_additional_links[j]

BadPattern == args.ignore.given /\ ~ReCompiles(args.ignore.pattern)

GoodPattern == args.ignore.given /\ ReCompiles(args.ignore.pattern)

(***************************************************************************)
(* C1.  A pair whose download raised is not substituted, and every         *)
(* occurrence of its original text in the raw page bytes is still there,   *)
(* at the same spot, in the final index.html.  Fails on the code, already  *)
(* on pages whose pairs are distinct and have no empty text, and for the   *)
(* occurrences that are the whole value of an attribute.                   *)
(***************************************************************************)
C1_FailedPairUntouched ==
    (CallDone /\ PlainPairs) =>
        \A k \in DOMAIN log :
            (log[k].e = "get" /\ log[k].idx > 0 /\ log[k].data = "raise") =>
                /\ \A j \in SubsOf : log[j].idx # log[k].idx
                /\ disk[base_page_filename] = updated_page
                /\ \A i \in OccurrencesIn(log[k].rel_link) :
                       IsAttributeValue(i, Len(log[k].rel_link)) =>
                           StillAt(i, Len(log[k].rel_link))

(***************************************************************************)
(* C2.  Once a download has raised, the call is never aborted: it stays    *)
(* on the path to the final write of index.html, where it always has a     *)
(* next step to take until that write is done, and every pair before the   *)
(* loop index (in the end every pair of the page) is attempted.            *)
(***************************************************************************)
C2_DownloadFailureNeverAborts ==
    (Fetched200 /\ FailedIdx # {}) =>
        /\ pc \in {"loop", "write"} \/ CallDone
        /\ pc = "loop" => AttemptedUpTo(li - 1)
        /\ (pc = "write" \/ CallDone) => AttemptedUpTo(Len(all_additional_links))
        /\ ~CallDone => ENABLED (DownloadRaises \/ DownloadOk \/ ZipFiles \/ WriteUpdated)
        /\ CallDone => /\ log[Len(log)].e = "write"
                       /\ log[Len(log)].data = updated_page
                       /\ disk[base_page_filename] = updated_page

C2_Witness ==
    /\ CallDone
    /\ Len(all_additional_links) >= 2
    /\ 1 \in FailedIdx
    /\ AttemptedUpTo(Len(all_additional_links))

(***************************************************************************)
(* C3.  When main has ended, every page of the batch was processed: no     *)
(* error of one page keeps a later page from its copy_page call.  Fails    *)
(* on the code.                                                            *)
(***************************************************************************)
C3_BatchIsolated == pc \in {"exit", "crashed"} => Len(results) = Len(urls)

(***************************************************************************)
(* C4.  As claimed: after a response whose status is not 200, get_retry    *)
(* issues no further GET.  Fails on the code.                              *)
(***************************************************************************)
C4_Non200NotRetried ==
    \A i \in DOMAIN retry.gets :
        (~retry.gets[i].raised /\ retry.gets[i].status # 200) => i = Len(retry.gets)

(***************************************************************************)
(* C4, amended.  A further GET follows every attempt but a 200 response    *)
(* and the max_retries-th attempt: get_retry returns a response only when  *)
(* its status is 200 or it is that of the max_retries-th GET, and while    *)
(* the loop runs fewer than max_retries GETs were issued.                  *)
(***************************************************************************)
C4_ReturnsOn200OrLastAttempt ==
    retry.max_retries >= 1 =>
        /\ \A i \in DOMAIN retry.gets :
               (~retry.gets[i].raised /\ retry.gets[i].status = 200) => i = Len(retry.gets)
        /\ retry.pc = "loop" => Len(retry.gets) < retry.max_retries
        /\ retry.pc = "returned" =>
               LET last == retry.gets[Len(retry.gets)]
               IN /\ ~last.raised
                  /\ retry.r = last.status
                  /\ last.status = 200 \/ Len(retry.gets) = retry.max_retries

C4_Witness ==
    /\ retry.pc = "returned"
    /\ Len(retry.gets) = retry.max_retries
    /\ retry.max_retries >= 2
    /\ ~retry.gets[1].raised /\ retry.gets[1].status = 404
    /\ retry.r # 200

(***************************************************************************)
(* C5.  With max_retries = n >= 1, get_retry never issues more than n      *)
(* GETs; when every attempt raised and the function has ended, exactly n   *)
(* GETs were issued and the error of the n-th left the function.           *)
(***************************************************************************)
C5_BoundedRetries ==
    retry.max_retries >= 1 =>
        /\ Len(retry.gets) <= retry.max_retries
        /\ ((\A i \in DOMAIN retry.gets : retry.gets[i].raised)
                /\ retry.pc \in {"returned", "raised"}) =>
               /\ Len(retry.gets) = retry.max_retries
               /\ retry.pc = "raised"
               /\ retry.err = retry.max_retries
        /\ ((\A i \in DOMAIN retry.gets : retry.gets[i].raised)
                /\ Len(retry.gets) = retry.max_retries) => retry.pc = "raised"

C5_Witness ==
    /\ retry.pc = "raised"
    /\ retry.max_retries >= 2
    /\ Len(retry.gets) = retry.max_retries
    /\ retry.err = retry.max_retries

(***************************************************************************)
(* C6.  A fetch of copy_page, of the page or of a resource, whose first    *)
(* GET raised is attempted again: it ends with a response of a later GET   *)
(* or after DefaultMaxRetries GETs.  Fails on the code.                    *)
(***************************************************************************)
C6_FetchesRetried ==
    \A k \in DOMAIN log :
        (log[k].e = "get" /\ log[k].data = "raise" /\ k = Min(GetsOf(log[k].idx))) =>
            \/ Cardinality(GetsOf(log[k].idx)) = DefaultMaxRetries
            \/ \E j \in GetsOf(log[k].idx) : j > k /\ log[j].data # "raise"

(***************************************************************************)
(* C7.  A call whose page fetch returned 200 and that has ended wrote      *)
(* index.html exactly twice: the raw bytes before the first download, the  *)
(* rewritten bytes after the last download and substitution.  Fails on     *)
(* the code.                                                               *)
(***************************************************************************)
C7_WrittenTwice ==
    (Fetched200 /\ CallEnded) =>
        LET writes == {k \in DOMAIN log : log[k].e = "write"}
        IN /\ Cardinality(writes) = 2
           /\ log[Min(writes)].data = r.content
           /\ log[Max(writes)].data = updated_page
           /\ \A k \in DOMAIN log :
                  (log[k].idx > 0) => (Min(writes) < k /\ k < Max(writes))

(***************************************************************************)
(* C8.  Every substitution replaces occurrences of its original text in    *)
(* the raw page bytes only (never bytes a substitution inserted), and      *)
(* every occurrence in the raw bytes of the original text of a downloaded  *)
(* pair is replaced exactly once.  Fails on the code, already on pages     *)
(* whose pairs are distinct and have no empty text.                        *)
(***************************************************************************)
C8_RewrittenExactlyOnce ==
    (CallDone /\ PlainPairs) =>
        \A k \in SubsOf :
            LET n == Len(log[k].rel_link)
            IN /\ \A j \in DOMAIN log[k].m :
                      \E i \in OccurrencesIn(log[k].rel_link) : log[k].m[j] = RawBytes(i, n)
               /\ \A i \in OccurrencesIn(log[k].rel_link) :
                      Cardinality({<<k2, j>> \in SubsOf \X (1..Len(r.content) + 1) :
                                      /\ log[k2].rel_link = log[k].rel_link
                                      /\ j \in DOMAIN log[k2].m
                                      /\ log[k2].m[j] = RawBytes(i, n)}) = 1

(***************************************************************************)
(* C9.  With an ignore pattern that compiles, no GET is issued, no file    *)
(* saved and no substitution applied for a pair whose original text        *)
(* matches the pattern; every extracted pair whose text does not match is  *)
(* in the list that is downloaded, and is attempted.                       *)
(***************************************************************************)
C9_IgnoredPairsExcluded ==
    GoodPattern =>
        /\ \A k \in DOMAIN log :
               log[k].idx > 0 => ~ReSearch(args.ignore.pattern, log[k].rel_link)
        /\ (pc \in {"loop", "write"} \/ CallDone) =>
               /\ \A i \in DOMAIN Merged :
                      ~ReSearch(args.ignore.pattern, Merged[i].rel_link) =>
                          \E j \in DOMAIN all_additional_links :
                              all_additional_links[j] = Merged[i]
               /\ \A j \in DOMAIN all_additional_links :
                      ~ReSearch(args.ignore.pattern, all_additional_links[j].rel_link)
        /\ CallDone =>
               \A i \in DOMAIN Merged :
                   ~ReSearch(args.ignore.pattern, Merged[i].rel_link) =>
                       \E k \in DOMAIN log : /\ log[k].e = "get"
                                             /\ log[k].idx > 0
                                             /\ log[k].link = Merged[i].link
                                             /\ log[k].rel_link = Merged[i].rel_link

C9_Witness ==
    /\ CallDone
    /\ GoodPattern
    /\ \E i \in DOMAIN Merged : ReSearch(args.ignore.pattern, Merged[i].rel_link)
    /\ \E k \in SubsOf : log[k].m # <<>>

(***************************************************************************)
(* C10.  With an ignore pattern that does not compile, the list that is    *)
(* downloaded is the merged list, as without a pattern, and the call is    *)
(* not aborted once it has reached the ignore step: every pair is          *)
(* attempted and the call ends with its final write.                       *)
(***************************************************************************)
C10_BadPatternIgnoresNothing ==
    BadPattern =>
        /\ (pc \in {"loop", "write"} \/ CallDone) =>
               /\ all_additional_links = Merged
               /\ all_additional_links = FilterLinks(NoIgnore, Merged)
        /\ pc = "crashed" => li = 0
        /\ CallDone => AttemptedUpTo(Len(Merged))

C10_Witness ==
    /\ CallDone
    /\ BadPattern
    /\ Len(Merged) >= 2
    /\ \E k \in SubsOf : log[k].m # <<>>

(***************************************************************************)
(* C11.  The step in which a copy_page call ends Failed (its page fetch    *)
(* returned a status other than 200) issues that one GET and nothing       *)
(* else: the disk and the archives are as before it, no resource is        *)
(* fetched, and main is at its next page; the call after a Failed one      *)
(* is made whenever the batch has a further page.                          *)
(***************************************************************************)
EndsFailed ==
    /\ Len(results') = Len(results) + 1
    /\ results'[Len(results')].state = "Failed"

C11_FailedStep ==
    EndsFailed =>
        /\ disk' = disk
        /\ zips' = zips
        /\ Len(log') = 1 /\ log'[1].e = "get" /\ log'[1].idx = 0
        /\ log'[1].data \notin {"200", "raise"}
        /\ pc' = "main" /\ ui' = ui + 1
        /\ exc' = exc

C11_MainGoesOn ==
    (pc = "main" /\ results # <<>> /\ results[Len(results)].state = "Failed") =>
        /\ ui = Len(results) + 1
        /\ ui <= Len(urls) => ENABLED (FetchPageOk \/ FetchPageNon200 \/ FetchPageRaises)
        /\ ui > Len(urls) => ENABLED MainReturns

C11_Non200FailsPageOnly == [][C11_FailedStep]_vars /\ []C11_MainGoesOn

C11_Witness ==
    /\ Len(results) >= 2
    /\ results[1].state = "Failed"
    /\ results[2].state = "Done"
    /\ "index.html" \in DOMAIN disk

(***************************************************************************)
(* C12.  With packaging enabled, the archive of a finished call holds      *)
(* index.html with the rewritten bytes of the final write, the file of     *)
(* every pair whose download returned, and no file of a pair whose         *)
(* download raised and never returned.  Fails on the code.                 *)
(***************************************************************************)
C12_ArchiveHoldsPageAndResources ==
    (CallDone /\ args.zip) =>
        LET z == zips[Len(zips)]
            names == {z.files[i][1] : i \in DOMAIN z.files}
            saved == {"./" \o log[k].data : k \in {j \in DOMAIN log : log[j].e = "save"}}
        IN /\ \E i \in DOMAIN z.files :
                  z.files[i] = <<"./" \o base_page_filename, updated_page>>
           /\ saved \subseteq names
           /\ names \subseteq saved \cup {"./" \o base_page_filename}

(***************************************************************************)
(* C13.  Once a copy_page call of the batch has ended with its final       *)
(* write, no later step (of a later page) changes index.html or any other  *)
(* file that is on disk.  Fails on the code.                               *)
(***************************************************************************)
C13_KeepsEarlierFiles ==
    (results # <<>> /\ \A i \in DOMAIN results : results[i].state = "Done")
        => \A f \in DOMAIN disk : f \in DOMAIN disk' /\ disk'[f] = disk[f]

C13_PagesIndependent == [][C13_KeepsEarlierFiles]_vars

(***************************************************************************)
(* C14.  When the raw page bytes hold no occurrence of the original text   *)
(* of any pair whose download returned (so also with no pair at all, and   *)
(* with every download raising), the final write puts the raw bytes,       *)
(* unchanged, into index.html.                                             *)
(***************************************************************************)
\* the steps of the log that are downloads which returned
ReturnedGets ==
    {k \in DOMAIN log : log[k].e = "get" /\ log[k].idx > 0 /\ log[k].data # "raise"}

C15_LongerTextReplacedWhole ==
    (CallDone /\ PlainPairs) =>
        \A k1, k2 \in SubsOf :
            (/\ log[k1].rel_link # log[k2].rel_link
             /\ Contains(log[k2].rel_link, log[k1].rel_link)) =>
                /\ k2 < k1
                /\ \A i \in OccurrencesIn(log[k2].rel_link) :
                       \E j \in DOMAIN log[k2].m :
                           log[k2].m[j] = RawBytes(i, Len(log[k2].rel_link))

(***************************************************************************)
(* C16.  The merged list of a page holds each (absolute URL, original      *)
(* text) pair once, also when the reference occurs in several categories,  *)
(* and each distinct pair is downloaded and substituted at most once in a  *)
(* call.  Fails on the code: each category is deduplicated alone.          *)
(***************************************************************************)
C16_MergedSetDeduplicated ==
    /\ \A i, j \in DOMAIN all_additional_links :
           i # j => all_additional_links[i] # all_additional_links[j]
    /\ \A k1, k2 \in DOMAIN log :
           (/\ k1 # k2
            /\ log[k1].idx > 0
            /\ log[k1].e = log[k2].e
            /\ log[k1].e \in {"get", "sub"}) =>
               <<log[k1].link, log[k1].rel_link>> # <<log[k2].link, log[k2].rel_link>>

(***************************************************************************)
(* C17.  Empty reference strings are filtered out before resolution: no    *)
(* pair with the empty original text is extracted, listed, downloaded or   *)
(* used as the search key of a substitution.  Fails on the code: an        *)
(* attribute that is present and empty is resolved like any other.         *)
(***************************************************************************)
C17_EmptyReferencesFiltered ==
    /\ \A i \in DOMAIN Merged : Merged[i].rel_link # ""
    /\ \A i \in DOMAIN all_additional_links : all_additional_links[i].rel_link # ""
    /\ \A k \in DOMAIN log : log[k].idx > 0 => log[k].rel_link # ""

(***************************************************************************)
(* C18.  A tag that lacks the attribute of its category contributes no     *)
(* pair and raises no error: the extraction step of a fetched page always  *)
(* completes, raising nothing, with pairs whose texts all come from the    *)
(* value of an attribute that some tag has, and the call goes on to the    *)
(* ignore and download steps.  Fails on the code for a link tag with       *)
(* rel=stylesheet and no href.                                             *)
(***************************************************************************)
C18_ExtractionStep ==
    pc = "extract" =>
        /\ pc' = "filter"
        /\ exc' = exc
        /\ results' = results
        /\ \A i \in DOMAIN all_additional_links' :
               \E t \in DOMAIN r.tags : \E a \in DOMAIN r.tags[t].attrs :
                   Contains(r.tags[t].attrs[a][2], all_additional_links'[i].rel_link)

C18_MissingAttributeIsNoError == [][C18_ExtractionStep]_vars

(***************************************************************************)
(* C19 as stated.  The name get_usable_filename_from_url returns has no    *)
(* path separator; a query string right after .css or .js is removed; and  *)
(* after every other extension the query string is in the name verbatim.   *)
(* Fails on the code: a '/' of the query becomes '_' like any other, a     *)
(* query of nothing but '?' stays, and a '.js?' inside the query of        *)
(* another extension cuts the name there.                                  *)
(***************************************************************************)
C19_QueryKeptVerbatim ==
    fname.pc = "returned" =>
        /\ ~Contains(fname.name, "/")
        /\ (fname.ext \in {".css", ".js"} /\ fname.query # "") =>
               (EndsWith(fname.name, fname.ext) /\ ~Contains(fname.name, "?"))
        /\ fname.ext \notin {".css", ".js"} =>
               EndsWith(fname.name, fname.ext \o fname.query)

(***************************************************************************)
(* C19, amended.  The name has no path separator: every '/' of the URL     *)
(* after the scheme, those of the query string too, is replaced by '_',    *)
(* the ones at the very end being dropped.  A query string right after     *)
(* .css or .js is removed when, so flattened, it has a character after     *)
(* its '?', and is kept otherwise.  After every other extension the        *)
(* flattened query string is in the name, character for character, when    *)
(* it holds no '.css?' and no '.js?'.                                      *)
(***************************************************************************)
\* the query string of the call as the name can hold it
FlatQuery == ReSub("/", "_", Strip(fname.query, "/"))

C19_FlatNameQueryRule ==
    fname.pc = "returned" =>
        /\ ~Contains(fname.name, "/")
        /\ (fname.ext \in {".css", ".js"} /\ Len(FlatQuery) >= 2) =>
               (EndsWith(fname.name, fname.ext) /\ ~Contains(fname.name, "?"))
        /\ (fname.ext \in {".css", ".js"} /\ Len(FlatQuery) < 2) =>
               EndsWith(fname.name, fname.ext \o FlatQuery)
        /\ (/\ fname.ext \notin {".css", ".js"}
            /\ ~Contains(FlatQuery, ".css?")
            /\ ~Contains(FlatQuery, ".js?")) =>
               EndsWith(fname.name, fname.ext \o FlatQuery)

C19_Witness ==
    /\ fname.pc = "returned"
    /\ fname.url = "https://h/d/a.css?u=/x"
    /\ fname.name = "h_d_a.css"

(***************************************************************************)
(* C20.  Whether a download counts as done does not depend on the HTTP     *)
(* status of its response.  In the step of a resource GET that returns,    *)
(* with status 200 or any other, the body of the response is written to    *)
(* the local file of the resource, the file is added to the list that is   *)
(* packaged, the original text is rewritten to the local path in the page  *)
(* bytes, and the loop goes on; only in the step of a GET that raises is   *)
(* nothing written, listed or rewritten.                                   *)
(***************************************************************************)
C20_DownloadStep ==
    (pc = "loop" /\ Len(log') > Len(log) /\ log'[Len(log) + 1].e = "get") =>
        LET g == log'[Len(log) + 1]
            new_filename == get_usable_filename_from_url(g.link)
        IN IF g.data = "raise"
           THEN /\ disk' = disk
                /\ created_files_relative_path' = created_files_relative_path
                /\ updated_page' = updated_page
           ELSE /\ \E status \in {200} \cup NonOkStatuses :
                       /\ g.data = ToString(status)
                       /\ new_filename \in DOMAIN disk'
                       /\ disk'[new_filename] = Body(g.link, status)
                /\ created_files_relative_path' =
                       Append(created_files_relative_path, "./" \o new_filename)
                /\ updated_page' = ReSub(g.rel_link, "./" \o new_filename, updated_page)
                /\ pc' = "loop" /\ li' = li + 1 /\ exc' = exc

C20_StatusDoesNotDecide == [][C20_DownloadStep]_vars

C20_Witness ==
    /\ CallDone
    /\ args.zip
    /\ \E k \in DOMAIN log :
           /\ log[k].e = "get" /\ log[k].idx > 0 /\ log[k].data = "404"
           /\ log[k + 2].e = "sub" /\ log[k + 2].idx = log[k].idx /\ log[k + 2].m # <<>>
           /\ disk[get_usable_filename_from_url(log[k].link)] = Body(log[k].link, 404)
           /\ \E i \in DOMAIN zips[Len(zips)].files :
                  zips[Len(zips)].files[i] =
                      <<"./" \o get_usable_filename_from_url(log[k].link),
                        Body(log[k].link, 404)>>
           /\ ~Contains(disk[base_page_filename], "'" \o log[k].rel_link \o "'")

====
